---------------------------- MODULE Spec2Model ----------------------------
(***************************************************************************)
(* Gesture Rock-Paper-Scissors-Pencil (src/main.py).                       *)
(*                                                                         *)
(* The Tk application is modelled as a state machine whose actions are the *)
(* callbacks the Tk event loop runs one at a time: the constructor, the    *)
(* tick (_update_video), the cool-down release (_release_lockout), the     *)
(* Reset button (_reset_game), the window close (_on_close) and a keyboard *)
(* interrupt that leaves mainloop.  Time is abstracted: a pending `after`  *)
(* callback may run at any moment, which over-approximates every timing    *)
(* the event loop can produce.                                             *)
(*                                                                         *)
(* The classifier and the round resolver are operators; they are also      *)
(* exercised on their own by SpecClassify and SpecResolve.                 *)
(***************************************************************************)
EXTENDS Naturals, Sequences, FiniteSets, TLC

VARIABLES
    phase,              \* "start" | "init_tick" | "running" | "exited" | "unit"
    exit_status,        \* <<>> while the process lives, <<code>> once it ended
    error_shown,        \* messagebox.showerror was called (main.py:139)
    cap_check,          \* history: <<>>, then <<isOpened() at startup>>
    cap_opened,         \* self.cap.isOpened()
    cap_releases,       \* number of self.cap.release() calls
    score,              \* self.game.score
    last_gesture,       \* self.last_gesture
    _gesture_frames,    \* self._gesture_frames
    _lockout,           \* self._lockout
    _lockout_after_id,  \* self._lockout_after_id: <<>> is None, <<id>> an id
    status_var,         \* self.status_var
    score_vars,         \* the three score StringVars
    tick_after,         \* pending after(ms, _update_video) callbacks: their ms
    release_after,      \* pending after(1800, _release_lockout) callbacks: id, ms
    next_after_id,      \* the next id window.after hands out for a release
    ticked,             \* history: _update_video has run
    commits,            \* history: resolve_round calls since startup
    since_reset,        \* history: resolve_round calls since the last reset
    releases,           \* history: _release_lockout runs since startup
    last_round,         \* history: arguments and message of the last call
    ev,                 \* history: the callback that ran last, with what it saw
    run,                \* history: trailing equal observations _handle_gesture saw
    feed,               \* history: successive successful ticks showing one move
    unit                \* the call under test in SpecClassify / SpecResolve

vars == <<phase, exit_status, error_shown, cap_check, cap_opened, cap_releases, score,
          last_gesture, _gesture_frames, _lockout, _lockout_after_id,
          status_var, score_vars, tick_after, release_after, next_after_id,
          ticked, commits, since_reset, releases, last_round, ev, run, feed, unit>>

appVars == <<phase, exit_status, error_shown, cap_check, cap_opened, cap_releases, score,
             last_gesture, _gesture_frames, _lockout, _lockout_after_id,
             status_var, score_vars, tick_after, release_after, next_after_id,
             ticked, commits, since_reset, releases, last_round, ev, run, feed>>

---------------------------------------------------------------------------
(* Bounds of the model                                                     *)

\* resolve_round is called at most MaxRounds times in one behaviour.
MaxRounds == 2
\* Landmark y coordinates are drawn from 0..MaxY in SpecClassify.
MaxY == 1
\* Score counters are drawn from 0..MaxScore in SpecResolve.
MaxScore == 2

---------------------------------------------------------------------------
(* GestureRecognizer                                                       *)

Fingers == {"thumb", "index", "middle", "ring", "pinky"}

\* _FINGER_LANDMARKS: finger -> <<tip index, pip index>>
_FINGER_LANDMARKS ==
    [f \in Fingers |->
        CASE f = "thumb"  -> <<4, 3>>
          [] f = "index"  -> <<8, 6>>
          [] f = "middle" -> <<12, 10>>
          [] f = "ring"   -> <<16, 14>>
          [] f = "pinky"  -> <<20, 18>>]

LandmarkIds == UNION {{_FINGER_LANDMARKS[f][1], _FINGER_LANDMARKS[f][2]} : f \in Fingers}

\* landmarks.landmark[tip_idx].y < landmarks.landmark[pip_idx].y
_is_extended(landmarks, tip_idx, pip_idx) == landmarks[tip_idx] < landmarks[pip_idx]

fingers_extended(landmarks) ==
    [f \in Fingers |->
        _is_extended(landmarks, _FINGER_LANDMARKS[f][1], _FINGER_LANDMARKS[f][2])]

_classify(landmarks) ==
    LET fe     == fingers_extended(landmarks)
        thumb  == fe["thumb"]
        index  == fe["index"]
        middle == fe["middle"]
        ring   == fe["ring"]
        pinky  == fe["pinky"]
    IN  IF ~(thumb \/ index \/ middle \/ ring \/ pinky) THEN "rock"
        ELSE IF thumb /\ index /\ middle /\ ring /\ pinky THEN "paper"
        ELSE IF index /\ ~(middle \/ ring \/ pinky) THEN "pencil"
        ELSE IF index /\ middle /\ ~(ring \/ pinky) THEN "scissors"
        ELSE "unknown"

\* A frame is what results.multi_hand_landmarks holds for it: <<>> when no hand
\* was detected, <<landmarks>> otherwise (max_num_hands = 1).
NoHand == <<>>

\* GestureRecognizer.process: the GestureResult of a frame.
process(frame) ==
    IF frame = NoHand
    THEN [name |-> "unknown", confidence |-> 0]
    ELSE LET gesture_name == _classify(frame[1])
         IN  [name |-> gesture_name,
              confidence |-> IF gesture_name # "unknown" THEN 1 ELSE 0]

\* The hand whose fingers are extended as fe says: an extended finger has its
\* tip above its pip (smaller y), a folded one below.
HandOf(fe) ==
    [i \in LandmarkIds |->
        IF \E f \in Fingers : _FINGER_LANDMARKS[f][1] = i
        THEN (IF fe[CHOOSE f \in Fingers : _FINGER_LANDMARKS[f][1] = i] THEN 0 ELSE 1)
        ELSE (IF fe[CHOOSE f \in Fingers : _FINGER_LANDMARKS[f][2] = i] THEN 1 ELSE 0)]

\* The frames a tick may capture: no hand, or a hand in any of the 32 poses.
TickFrames == {NoHand} \cup {<<HandOf(fe)>> : fe \in [Fingers -> BOOLEAN]}

---------------------------------------------------------------------------
(* GestureRPSGame                                                          *)

MOVES == {"rock", "paper", "scissors", "pencil"}

\* Mutant: the classic three-move table, pencil beaten by nothing but scissors.
WIN_RULES_RockMissesPencil ==
    [m \in MOVES |->
        CASE m = "rock"     -> {"scissors"}
          [] m = "paper"    -> {"rock"}
          [] m = "scissors" -> {"paper", "pencil"}
          [] m = "pencil"   -> {"paper"}]

WIN_RULES ==
    [m \in MOVES |->
        CASE m = "rock"     -> {"scissors", "pencil"}
          [] m = "paper"    -> {"rock"}
          [] m = "scissors" -> {"paper", "pencil"}
          [] m = "pencil"   -> {"paper"}]

\* self.WIN_RULES.get(player_move, set())
WinRulesGet(player_move) ==
    IF player_move \in DOMAIN WIN_RULES THEN WIN_RULES[player_move] ELSE {}

\* str.title() on the move names
Title(m) ==
    CASE m = "rock"     -> "Rock"
      [] m = "paper"    -> "Paper"
      [] m = "scissors" -> "Scissors"
      [] m = "pencil"   -> "Pencil"
      [] OTHER          -> "Unknown"

\* GestureRPSGame.__init__
NewScore == [player |-> 0, computer |-> 0, ties |-> 0]

\* Mutant: the tie branch does not return, and the round is scored again below.
resolve_round_TieFallsThrough(sc, player_move, computer_move) ==
    LET sc1 == IF player_move = computer_move THEN [sc EXCEPT !.ties = @ + 1] ELSE sc
    IN  IF computer_move \in WinRulesGet(player_move)
        THEN [score   |-> [sc1 EXCEPT !.player = @ + 1],
              message |-> "You win! " \o Title(player_move) \o " beats " \o computer_move \o "."]
        ELSE [score   |-> [sc1 EXCEPT !.computer = @ + 1],
              message |-> "I win! " \o Title(computer_move) \o " beats " \o player_move \o "."]

\* GestureRPSGame.resolve_round: the score it leaves and the message it returns.
resolve_round(sc, player_move, computer_move) ==
    IF player_move = computer_move
    THEN [score   |-> [sc EXCEPT !.ties = @ + 1],
          message |-> "It's a tie!"]
    ELSE IF computer_move \in WinRulesGet(player_move)
    THEN [score   |-> [sc EXCEPT !.player = @ + 1],
          message |-> "You win! " \o Title(player_move) \o " beats " \o computer_move \o "."]
    ELSE [score   |-> [sc EXCEPT !.computer = @ + 1],
          message |-> "I win! " \o Title(computer_move) \o " beats " \o player_move \o "."]

---------------------------------------------------------------------------
(* Program constants of GestureRPSApp                                      *)

\* if self._gesture_frames >= 10
COMMIT_FRAMES == 10
\* self.window.after(30, self._update_video)
TICK_MS == 30
\* self.window.after(500, self._update_video)
RETRY_MS == 500
\* self.window.after(1800, self._release_lockout)
LOCKOUT_MS == 1800

---------------------------------------------------------------------------
(* Helpers                                                                 *)

DigitStr == <<"0", "1", "2", "3", "4", "5", "6", "7", "8", "9">>

RECURSIVE Str(_)
\* str(n) for a non-negative int
Str(n) == IF n < 10 THEN DigitStr[n + 1] ELSE Str(n \div 10) \o DigitStr[(n % 10) + 1]

\* The sequence s without its i-th element.
RemoveAt(s, i) == [j \in 1..(Len(s) - 1) |-> IF j < i THEN s[j] ELSE s[j + 1]]

Min(a, b) == IF a < b THEN a ELSE b

\* The three score StringVars after set(str(...)) of each counter.
ScoreVarsOf(sc) ==
    [player |-> Str(sc.player), computer |-> Str(sc.computer), ties |-> Str(sc.ties)]

---------------------------------------------------------------------------
(* History variables: what the claims observe                              *)

NoEvent ==
    [op |-> "none", ret |-> FALSE, obs |-> "unknown", handled |-> FALSE,
     committed |-> FALSE, locked |-> FALSE, pending |-> FALSE, ms |-> 0,
     candidate |-> "unknown", frames |-> 0, id_set |-> FALSE]

\* The record of the callback name, with the state it ran in: the lock flag,
\* whether a release was pending and whether a release id was stored.  A tick
\* that read a frame adds what it observed and did, and the candidate and the
\* count it found.
EventOf(name) ==
    [NoEvent EXCEPT !.op = name, !.locked = _lockout, !.pending = (release_after # {}),
                    !.id_set = (_lockout_after_id # <<>>)]

NoRound == [player |-> "unknown", computer |-> "unknown", message |-> ""]

NoRun == [move |-> "unknown", len |-> 0]

\* The run of equal observations after _handle_gesture has seen g: it ends at
\* an unknown observation and at a commit, and a reset ends it too.
RunAfter(g, committed) ==
    IF g = "unknown" \/ committed THEN NoRun
    ELSE IF g = run.move THEN [run EXCEPT !.len = Min(@ + 1, COMMIT_FRAMES)]
    ELSE [move |-> g, len |-> 1]

NoFeed == [move |-> "unknown", len |-> 0, commits |-> 0, idle |-> FALSE, released |-> FALSE]

\* The app is idle and unlocked: no candidate, no count, no lock.
IdleUnlocked == ~_lockout /\ last_gesture = "unknown" /\ _gesture_frames = 0

\* The feed after a successful tick that observed g: successive successful
\* ticks showing one move, begun in the idle unlocked state (idle) or right
\* after the release callback (released); commits counts the rounds resolved
\* by the ticks of the feed.  Every callback that is not such a tick ends it.
FeedAfter(g, committed) ==
    LET c == IF committed THEN 1 ELSE 0
    IN  IF feed.len \in 1..(COMMIT_FRAMES - 1) /\ g = feed.move
        THEN [feed EXCEPT !.len = @ + 1, !.commits = @ + c]
        ELSE IF g \in MOVES /\ (IdleUnlocked \/ ev.op = "_release_lockout")
        THEN [move |-> g, len |-> 1, commits |-> c,
              idle |-> IdleUnlocked, released |-> (ev.op = "_release_lockout")]
        ELSE NoFeed

---------------------------------------------------------------------------
(* GestureRPSApp                                                           *)

\* The attributes before the constructor has run: each holds the value the
\* constructor gives it later.
InitAttributes ==
    /\ exit_status = <<>>
    /\ error_shown = FALSE
    /\ cap_check = <<>>
    /\ cap_opened = FALSE
    /\ cap_releases = 0
    /\ score = NewScore
    /\ last_gesture = "unknown"
    /\ _gesture_frames = 0
    /\ _lockout = FALSE
    /\ _lockout_after_id = <<>>
    /\ status_var = ""
    /\ score_vars = ScoreVarsOf(NewScore)
    /\ tick_after = <<>>
    /\ release_after = {}
    /\ next_after_id = 1
    /\ ticked = FALSE
    /\ commits = 0
    /\ since_reset = 0
    /\ releases = 0
    /\ last_round = NoRound
    /\ ev = NoEvent
    /\ run = NoRun
    /\ feed = NoFeed

\* The process before `app = GestureRPSApp()`.
Init ==
    /\ phase = "start"
    /\ InitAttributes
    /\ unit = [fn |-> "none"]

\* Mutant: the error is reported but the constructor goes on.
CameraError_NoExit ==
    /\ error_shown' = TRUE
    /\ status_var' = "Show a gesture to start!"
    /\ score_vars' = [player |-> "0", computer |-> "0", ties |-> "0"]
    /\ last_gesture' = "unknown"
    /\ _gesture_frames' = 0
    /\ _lockout' = FALSE
    /\ _lockout_after_id' = <<>>
    /\ phase' = "init_tick"
    /\ UNCHANGED exit_status

\* __init__ with the camera not opened: it reports the error, destroys the
\* window and exits with status 1.
CameraError ==
    /\ error_shown' = TRUE
    /\ phase' = "exited"
    /\ exit_status' = <<1>>
    /\ UNCHANGED <<status_var, score_vars, last_gesture, _gesture_frames,
                   _lockout, _lockout_after_id>>

\* __init__ with the camera opened: _setup_layout, the debounce attributes,
\* and then the call of _update_video, which is the next step (UpdateVideo
\* with i = 0).
CameraReady ==
    /\ status_var' = "Show a gesture to start!"
    /\ score_vars' = [player |-> "0", computer |-> "0", ties |-> "0"]
    /\ last_gesture' = "unknown"
    /\ _gesture_frames' = 0
    /\ _lockout' = FALSE
    /\ _lockout_after_id' = <<>>
    /\ phase' = "init_tick"
    /\ UNCHANGED <<error_shown, exit_status>>

\* GestureRPSApp.__init__ up to the call of _update_video; opened is what
\* self.cap.isOpened() answers.
AppInit(opened) ==
    /\ phase = "start"
    /\ score' = NewScore
    /\ cap_check' = <<opened>>
    /\ cap_opened' = opened
    /\ ev' = [EventOf("__init__") EXCEPT !.ret = opened]
    /\ IF ~opened THEN CameraError ELSE CameraReady
    /\ UNCHANGED <<cap_releases, tick_after, release_after, next_after_id,
                   ticked, commits, since_reset, releases, last_round, run, feed, unit>>

\* GestureRPSApp._resolve_round, with the computer's move cm drawn by
\* get_computer_move.
ResolveRound(player_move, computer_move) ==
    LET r == resolve_round(score, player_move, computer_move)
    IN  /\ score' = r.score
        /\ score_vars' = ScoreVarsOf(r.score)
        /\ status_var' = "You played " \o player_move \o ". I played "
                           \o computer_move \o ".\n" \o r.message
        /\ commits' = commits + 1
        /\ since_reset' = since_reset + 1
        /\ last_round' = [player |-> player_move, computer |-> computer_move,
                          message |-> r.message]

\* Mutant: the threshold test written with > in place of >=.
ReachedThreshold_Strict(frames) == frames > COMMIT_FRAMES

\* if self._gesture_frames >= 10
ReachedThreshold(frames) == frames >= COMMIT_FRAMES

\* Mutant: the commit leaves the count and the candidate as they are.
HandleGesture_KeepCount(gesture) ==
    IF gesture = "unknown"
    THEN /\ last_gesture' = "unknown"
         /\ _gesture_frames' = 0
         /\ status_var' = "Waiting for a gesture..."
         /\ UNCHANGED <<_lockout, _lockout_after_id, release_after, next_after_id,
                        score, score_vars, commits, since_reset, last_round>>
    ELSE LET frames == IF gesture = last_gesture THEN _gesture_frames + 1 ELSE 1
         IN  IF ReachedThreshold(frames)
             THEN /\ commits < MaxRounds
                  /\ _lockout' = TRUE
                  /\ \E computer_move \in MOVES : ResolveRound(gesture, computer_move)
                  /\ _gesture_frames' = frames
                  /\ last_gesture' = gesture
                  /\ _lockout_after_id' = <<next_after_id>>
                  /\ release_after' = release_after \cup {[id |-> next_after_id, ms |-> LOCKOUT_MS]}
                  /\ next_after_id' = next_after_id + 1
             ELSE /\ _gesture_frames' = frames
                  /\ last_gesture' = gesture
                  /\ UNCHANGED <<_lockout, _lockout_after_id, release_after,
                                 next_after_id, score, score_vars, status_var,
                                 commits, since_reset, last_round>>

\* Mutant: an unknown gesture only sets the status and keeps the progress.
HandleGesture_UnknownKeeps(gesture) ==
    IF gesture = "unknown"
    THEN /\ status_var' = "Waiting for a gesture..."
         /\ UNCHANGED <<last_gesture, _gesture_frames, _lockout, _lockout_after_id,
                        release_after, next_after_id, score, score_vars, commits,
                        since_reset, last_round>>
    ELSE LET frames == IF gesture = last_gesture THEN _gesture_frames + 1 ELSE 1
         IN  IF ReachedThreshold(frames)
             THEN /\ commits < MaxRounds
                  /\ _lockout' = TRUE
                  /\ \E computer_move \in MOVES : ResolveRound(gesture, computer_move)
                  /\ _gesture_frames' = 0
                  /\ last_gesture' = "unknown"
                  /\ _lockout_after_id' = <<next_after_id>>
                  /\ release_after' = release_after \cup {[id |-> next_after_id, ms |-> LOCKOUT_MS]}
                  /\ next_after_id' = next_after_id + 1
             ELSE /\ _gesture_frames' = frames
                  /\ last_gesture' = gesture
                  /\ UNCHANGED <<_lockout, _lockout_after_id, release_after,
                                 next_after_id, score, score_vars, status_var,
                                 commits, since_reset, last_round>>

\* Mutant: a switch to another move starts its count at 0.
HandleGesture_SwitchZero(gesture) ==
    IF gesture = "unknown"
    THEN /\ last_gesture' = "unknown"
         /\ _gesture_frames' = 0
         /\ status_var' = "Waiting for a gesture..."
         /\ UNCHANGED <<_lockout, _lockout_after_id, release_after, next_after_id,
                        score, score_vars, commits, since_reset, last_round>>
    ELSE LET frames == IF gesture = last_gesture THEN _gesture_frames + 1 ELSE 0
         IN  IF ReachedThreshold(frames)
             THEN /\ commits < MaxRounds
                  /\ _lockout' = TRUE
                  /\ \E computer_move \in MOVES : ResolveRound(gesture, computer_move)
                  /\ _gesture_frames' = 0
                  /\ last_gesture' = "unknown"
                  /\ _lockout_after_id' = <<next_after_id>>
                  /\ release_after' = release_after \cup {[id |-> next_after_id, ms |-> LOCKOUT_MS]}
                  /\ next_after_id' = next_after_id + 1
             ELSE /\ _gesture_frames' = frames
                  /\ last_gesture' = gesture
                  /\ UNCHANGED <<_lockout, _lockout_after_id, release_after,
                                 next_after_id, score, score_vars, status_var,
                                 commits, since_reset, last_round>>

\* GestureRPSApp._handle_gesture (the status text has "..." for its ellipsis character)
HandleGesture(gesture) ==
    IF gesture = "unknown"
    THEN /\ last_gesture' = "unknown"
         /\ _gesture_frames' = 0
         /\ status_var' = "Waiting for a gesture..."
         /\ UNCHANGED <<_lockout, _lockout_after_id, release_after, next_after_id,
                        score, score_vars, commits, since_reset, last_round>>
    ELSE LET frames == IF gesture = last_gesture THEN _gesture_frames + 1 ELSE 1
         IN  IF ReachedThreshold(frames)
             THEN /\ commits < MaxRounds
                  /\ _lockout' = TRUE
                  /\ \E computer_move \in MOVES : ResolveRound(gesture, computer_move)
                  /\ _gesture_frames' = 0
                  /\ last_gesture' = "unknown"
                  /\ _lockout_after_id' = <<next_after_id>>
                  /\ release_after' = release_after \cup {[id |-> next_after_id, ms |-> LOCKOUT_MS]}
                  /\ next_after_id' = next_after_id + 1
             ELSE /\ _gesture_frames' = frames
                  /\ last_gesture' = gesture
                  /\ UNCHANGED <<_lockout, _lockout_after_id, release_after,
                                 next_after_id, score, score_vars, status_var,
                                 commits, since_reset, last_round>>

\* Mutant: the lock is not consulted before _handle_gesture.
ShouldHandle_Always == TRUE

\* if not self._lockout: self._handle_gesture(gesture_result)
ShouldHandle == ~_lockout

\* Mutant: a failed read is treated as a frame with no gesture, and the next
\* tick comes at the usual rate.
CameraFailed_AsUnknown(rest) ==
    /\ status_var' = "Camera feed unavailable."
    /\ tick_after' = Append(rest, TICK_MS)
    /\ ev' = [EventOf("_update_video") EXCEPT !.ms = TICK_MS]
    /\ feed' = NoFeed
    /\ last_gesture' = "unknown"
    /\ _gesture_frames' = 0
    /\ UNCHANGED <<_lockout, _lockout_after_id, release_after, next_after_id,
                   score, score_vars, commits, since_reset, last_round, run>>

\* Mutant: a failed read returns without scheduling the retry.
CameraFailed_NoRetry(rest) ==
    /\ status_var' = "Camera feed unavailable."
    /\ tick_after' = rest
    /\ ev' = EventOf("_update_video")
    /\ feed' = NoFeed
    /\ UNCHANGED <<last_gesture, _gesture_frames, _lockout, _lockout_after_id,
                   release_after, next_after_id, score, score_vars, commits,
                   since_reset, last_round, run>>

\* _update_video when cap.read() fails: the status, and a retry in 500 ms.
\* rest is the pending ticks without the one that is running.
CameraFailed(rest) ==
    /\ status_var' = "Camera feed unavailable."
    /\ tick_after' = Append(rest, RETRY_MS)
    /\ ev' = [EventOf("_update_video") EXCEPT !.ms = RETRY_MS]
    /\ feed' = NoFeed
    /\ UNCHANGED <<last_gesture, _gesture_frames, _lockout, _lockout_after_id,
                   release_after, next_after_id, score, score_vars, commits, since_reset,
                   last_round, run>>

\* _update_video with a frame: classify it, hand the result to
\* _handle_gesture unless locked, and schedule the next tick in 30 ms.
FrameCaptured(rest, frame) ==
    LET gesture_result == process(frame)
        handled == ShouldHandle
    IN  /\ IF handled
           THEN HandleGesture(gesture_result.name)
           ELSE UNCHANGED <<last_gesture, _gesture_frames, _lockout,
                            _lockout_after_id, release_after, next_after_id,
                            score, score_vars, status_var, commits, since_reset, last_round>>
        /\ tick_after' = Append(rest, TICK_MS)
        /\ ev' = [EventOf("_update_video") EXCEPT
                    !.ret = TRUE, !.obs = gesture_result.name,
                    !.handled = handled,
                    !.committed = (commits' # commits),
                    !.candidate = last_gesture, !.frames = _gesture_frames,
                    !.ms = TICK_MS]
        /\ run' = IF handled
                  THEN RunAfter(gesture_result.name, commits' # commits)
                  ELSE run
        /\ feed' = FeedAfter(gesture_result.name, commits' # commits)

\* GestureRPSApp._update_video.  i = 0 is the call the constructor makes,
\* i > 0 the run of the i-th pending after callback; ret and frame are what
\* self.cap.read() returns.
UpdateVideo(i, ret, frame) ==
    /\ \/ i = 0 /\ phase = "init_tick"
       \/ i \in 1..Len(tick_after) /\ phase = "running"
    /\ phase' = "running"
    /\ ticked' = TRUE
    /\ LET rest == IF i = 0 THEN tick_after ELSE RemoveAt(tick_after, i)
       IN  IF ~ret THEN CameraFailed(rest) ELSE FrameCaptured(rest, frame)
    /\ UNCHANGED <<exit_status, error_shown, cap_check, cap_opened, cap_releases,
                   releases, unit>>

\* One frame of TickFrames for each result process gives on them: a tick
\* uses its frame through process(frame) only, so these frames lead to every
\* state the frames of TickFrames lead to.
DistinctFrames ==
    {CHOOSE frame \in TickFrames : process(frame) = r :
        r \in {process(frame) : frame \in TickFrames}}

Tick == \E i \in 0..Len(tick_after), ret \in BOOLEAN, frame \in DistinctFrames :
            UpdateVideo(i, ret, frame)

\* Mutant: the release callback sets the status but leaves the lock flag set.
ReleaseLockout_KeepLock(t) ==
    /\ phase = "running"
    /\ t \in release_after
    /\ release_after' = release_after \ {t}
    /\ releases' = releases + 1
    /\ status_var' = "Show a gesture to play!"
    /\ ev' = EventOf("_release_lockout")
    /\ feed' = NoFeed
    /\ UNCHANGED <<phase, exit_status, error_shown, cap_check, cap_opened,
                   cap_releases, score, last_gesture, _gesture_frames, _lockout,
                   _lockout_after_id, score_vars, tick_after, next_after_id,
                   ticked, commits, since_reset, last_round, run, unit>>

\* GestureRPSApp._release_lockout, run by the pending after callback t.
ReleaseLockout(t) ==
    /\ phase = "running"
    /\ t \in release_after
    /\ release_after' = release_after \ {t}
    /\ _lockout' = FALSE
    /\ releases' = releases + 1
    /\ status_var' = "Show a gesture to play!"
    /\ ev' = EventOf("_release_lockout")
    /\ feed' = NoFeed
    /\ UNCHANGED <<phase, exit_status, error_shown, cap_check, cap_opened,
                   cap_releases, score, last_gesture, _gesture_frames,
                   _lockout_after_id, score_vars, tick_after, next_after_id,
                   ticked, commits, since_reset, last_round, run, unit>>

Release == \E t \in release_after : ReleaseLockout(t)

\* Mutant: the reset forgets to cancel the pending release.
ResetGame_NoCancel ==
    /\ phase = "running"
    /\ _lockout_after_id' = <<>>
    /\ _lockout' = FALSE
    /\ last_gesture' = "unknown"
    /\ _gesture_frames' = 0
    /\ score' = NewScore
    /\ score_vars' = [player |-> "0", computer |-> "0", ties |-> "0"]
    /\ status_var' = "Scores cleared. Show a gesture to play!"
    /\ ev' = EventOf("_reset_game")
    /\ since_reset' = 0
    /\ run' = NoRun
    /\ feed' = NoFeed
    /\ UNCHANGED <<phase, exit_status, error_shown, cap_check, cap_opened,
                   cap_releases, tick_after, release_after, next_after_id,
                   ticked, commits, releases, last_round, unit>>

\* Mutant: the reset cancels the pending release but leaves the lock flag set.
ResetGame_KeepLock ==
    /\ phase = "running"
    /\ IF _lockout_after_id # <<>>
       THEN /\ release_after' = {t \in release_after : t.id # _lockout_after_id[1]}
            /\ _lockout_after_id' = <<>>
       ELSE UNCHANGED <<release_after, _lockout_after_id>>
    /\ last_gesture' = "unknown"
    /\ _gesture_frames' = 0
    /\ score' = NewScore
    /\ score_vars' = [player |-> "0", computer |-> "0", ties |-> "0"]
    /\ status_var' = "Scores cleared. Show a gesture to play!"
    /\ ev' = EventOf("_reset_game")
    /\ since_reset' = 0
    /\ run' = NoRun
    /\ feed' = NoFeed
    /\ UNCHANGED <<phase, exit_status, error_shown, cap_check, cap_opened,
                   cap_releases, _lockout, tick_after, next_after_id, ticked,
                   commits, releases, last_round, unit>>

\* GestureRPSApp._reset_game.  after_cancel of an id whose callback already
\* ran cancels nothing.
ResetGame ==
    /\ phase = "running"
    /\ IF _lockout_after_id # <<>>
       THEN /\ release_after' = {t \in release_after : t.id # _lockout_after_id[1]}
            /\ _lockout_after_id' = <<>>
       ELSE UNCHANGED <<release_after, _lockout_after_id>>
    /\ _lockout' = FALSE
    /\ last_gesture' = "unknown"
    /\ _gesture_frames' = 0
    /\ score' = NewScore
    /\ score_vars' = [player |-> "0", computer |-> "0", ties |-> "0"]
    /\ status_var' = "Scores cleared. Show a gesture to play!"
    /\ ev' = EventOf("_reset_game")
    /\ since_reset' = 0
    /\ run' = NoRun
    /\ feed' = NoFeed
    /\ UNCHANGED <<phase, exit_status, error_shown, cap_check, cap_opened,
                   cap_releases, tick_after, next_after_id, ticked, commits, releases,
                   last_round, unit>>

\* GestureRPSApp._on_close: window.destroy() ends mainloop, run() returns and
\* the process ends with status 0.
OnClose ==
    /\ phase = "running"
    /\ IF cap_opened
       THEN cap_releases' = cap_releases + 1 /\ cap_opened' = FALSE
       ELSE UNCHANGED <<cap_releases, cap_opened>>
    /\ phase' = "exited"
    /\ exit_status' = <<0>>
    /\ ev' = EventOf("_on_close")
    /\ feed' = NoFeed
    /\ UNCHANGED <<error_shown, cap_check, score, last_gesture, _gesture_frames,
                   _lockout, _lockout_after_id, status_var, score_vars,
                   tick_after, release_after, next_after_id, ticked, commits, since_reset, releases,
                   last_round, run, unit>>

\* except KeyboardInterrupt: sys.exit(0), raised in the constructor or out of
\* mainloop between two callbacks.
KeyboardInterrupt ==
    /\ phase \in {"start", "init_tick", "running"}
    /\ phase' = "exited"
    /\ exit_status' = <<0>>
    /\ ev' = EventOf("KeyboardInterrupt")
    /\ feed' = NoFeed
    /\ UNCHANGED <<error_shown, cap_check, cap_opened, cap_releases, score,
                   last_gesture, _gesture_frames, _lockout, _lockout_after_id,
                   status_var, score_vars, tick_after, release_after,
                   next_after_id, ticked, commits, since_reset, releases, last_round, run, unit>>

Startup == \E opened \in BOOLEAN : AppInit(opened)

Next ==
    \/ Startup
    \/ Tick
    \/ Release
    \/ ResetGame
    \/ OnClose
    \/ KeyboardInterrupt

Spec == Init /\ [][Next]_vars

\* The event loop runs a pending release callback once it is due: a release
\* that stays pending is eventually run, as long as mainloop runs.
LiveSpec == Spec /\ WF_vars(Release)

---------------------------------------------------------------------------
(* The classifier and the resolver on their own                            *)

\* One call of _classify on the landmarks of a hand, every y in 0..MaxY.
InitClassify ==
    /\ phase = "unit"
    /\ InitAttributes
    /\ unit \in {[fn |-> "_classify", landmarks |-> lm, done |-> FALSE, result |-> ""] :
                    lm \in [LandmarkIds -> 0..MaxY]}

CallClassify ==
    /\ unit.fn = "_classify"
    /\ ~unit.done
    /\ unit' = [unit EXCEPT !.done = TRUE, !.result = _classify(unit.landmarks)]
    /\ UNCHANGED appVars

SpecClassify == InitClassify /\ [][CallClassify]_vars

\* One call of resolve_round on a score with counters in 0..MaxScore.
InitResolve ==
    /\ phase = "unit"
    /\ InitAttributes
    /\ unit \in {[fn |-> "resolve_round", score |-> sc, player_move |-> p,
                  computer_move |-> c, done |-> FALSE,
                  result |-> [score |-> sc, message |-> ""]] :
                    sc \in [player : 0..MaxScore, computer : 0..MaxScore, ties : 0..MaxScore],
                    p \in MOVES, c \in MOVES}

CallResolve ==
    /\ unit.fn = "resolve_round"
    /\ ~unit.done
    /\ unit' = [unit EXCEPT
                  !.done = TRUE,
                  !.result = resolve_round(unit.score, unit.player_move, unit.computer_move)]
    /\ UNCHANGED appVars

SpecResolve == InitResolve /\ [][CallResolve]_vars

---------------------------------------------------------------------------
(* Claims about the debouncer and the round lifecycle (Spec)               *)

\* C1: a round is resolved with player move m only by a tick that read a
\* frame, only while the app is not locked, only for a move m that is not
\* unknown, and only when the observation of that tick and the 9 observations
\* _handle_gesture saw right before it (no reset, no commit and no unknown in
\* between) were all m.
C1_CommitOnlyAfterKEqual ==
    [][commits' # commits =>
          /\ ev'.op = "_update_video" /\ ev'.ret /\ ev'.handled
          /\ ~_lockout
          /\ ev'.obs \in MOVES
          /\ last_round'.player = ev'.obs
          /\ run.move = ev'.obs
          /\ run.len >= COMMIT_FRAMES - 1
          /\ commits' = commits + 1]_vars

\* A round has just been committed with scissors.
C1_Witness ==
    /\ ev.op = "_update_video" /\ ev.committed
    /\ last_round.player = "scissors"
    /\ _lockout

\* C2: from the idle unlocked state, 10 successive successful ticks showing
\* the same move m commit exactly one round: none on ticks 1 to 9, and the
\* 10th calls resolve_round once, with player move m.
C2_TenTicksCommitOnce ==
    feed.idle =>
        /\ feed.len \in 1..(COMMIT_FRAMES - 1) => feed.commits = 0 /\ ~ev.committed
        /\ feed.len = COMMIT_FRAMES =>
              /\ feed.commits = 1
              /\ ev.committed
              /\ last_round.player = feed.move

\* The 10th tick of a feed begun in the idle unlocked state has run.
C2_Witness ==
    /\ feed.idle /\ feed.len = COMMIT_FRAMES /\ feed.move = "pencil"
    /\ feed.commits = 1 /\ last_round.player = "pencil"

\* C3: while the release scheduled by a commit is pending, no tick commits a
\* round, whatever it observes; and the 10 successive successful ticks that
\* follow the release callback and show the same move m commit exactly one
\* round, on the 10th tick and with move m, so that nothing observed during
\* the cool-down counts.
C3_CooldownThenOneRound ==
    /\ (ev.op = "_update_video" /\ ev.pending) => ~ev.committed
    /\ feed.released =>
          /\ feed.len \in 1..(COMMIT_FRAMES - 1) => feed.commits = 0 /\ ~ev.committed
          /\ feed.len = COMMIT_FRAMES =>
                /\ feed.commits = 1
                /\ ev.committed
                /\ last_round.player = feed.move

\* Rock was committed, the release has run, and the 10th of the paper ticks
\* that followed the release has committed the second round, with paper.
C3_Witness ==
    /\ feed.released /\ feed.len = COMMIT_FRAMES /\ feed.move = "paper"
    /\ feed.commits = 1 /\ commits = 2 /\ last_round.player = "paper"
    /\ score.player + score.computer + score.ties = 2

\* C4: the reset leaves the app unlocked, with candidate unknown and count 0,
\* the three counters at 0 and no release pending, whatever the state it ran
\* in; so no release scheduled before the reset can run after it.
C4_ResetClearsEverything ==
    ev.op = "_reset_game" =>
        /\ ~_lockout
        /\ last_gesture = "unknown"
        /\ _gesture_frames = 0
        /\ score = [player |-> 0, computer |-> 0, ties |-> 0]
        /\ release_after = {}
        /\ _lockout_after_id = <<>>

\* The reset ran while the app was locked with a release pending and a
\* round on the score.
C4_Witness ==
    /\ ev.op = "_reset_game" /\ ev.locked /\ ev.pending
    /\ commits = 1

\* C8: a tick whose camera read fails runs neither the classifier nor the
\* debouncer: candidate, count, lock flag, pending release and the three
\* counters are as before, and the one pending tick is due in 500 ms, not 30;
\* in every state, locked or not, and after any number of failures.
C8_FailedReadTouchesNothing ==
    [][(ev'.op = "_update_video" /\ ~ev'.ret) =>
          /\ UNCHANGED <<last_gesture, _gesture_frames, _lockout,
                         _lockout_after_id, release_after, score, commits, run>>
          /\ ~ev'.handled /\ ~ev'.committed
          /\ ev'.ms = RETRY_MS
          /\ tick_after' = <<RETRY_MS>>]_vars

\* A read has failed while the app was locked with a release pending, and
\* the retry is scheduled.
C8_Witness ==
    /\ ev.op = "_update_video" /\ ~ev.ret /\ ev.locked /\ ev.pending
    /\ _lockout /\ release_after # {}
    /\ tick_after = <<RETRY_MS>>

\* C11: while the app is locked, a tick that reads a frame changes nothing of
\* the debounce state and the score, whatever it observes: candidate, count,
\* lock flag, stored id, pending release and the three counters stay as they
\* were, and _handle_gesture is not called.
C11_LockedTickIgnored ==
    [][(ev'.op = "_update_video" /\ ev'.ret /\ _lockout) =>
          /\ UNCHANGED <<last_gesture, _gesture_frames, _lockout,
                         _lockout_after_id, release_after, score, score_vars>>
          /\ ~ev'.handled /\ ~ev'.committed]_vars

\* A tick has observed rock while the app was locked, and the app is still
\* locked with its release pending.
C11_Witness ==
    /\ ev.op = "_update_video" /\ ev.ret /\ ev.locked /\ ev.obs = "rock"
    /\ _lockout /\ release_after # {}

\* C12: while the app is unlocked, an unknown observation discards the
\* progress whatever the count was: the candidate becomes unknown and the
\* count 0, no round is resolved, the app stays unlocked and the score is
\* unchanged; the app is idle again, so 9 equal observations and an unknown
\* one commit nothing and 10 more are needed.
C12_UnknownDiscardsProgress ==
    [][(ev'.op = "_update_video" /\ ev'.ret /\ ~_lockout /\ ev'.obs = "unknown") =>
          /\ ev'.handled
          /\ last_gesture' = "unknown"
          /\ _gesture_frames' = 0
          /\ ~_lockout'
          /\ commits' = commits /\ ~ev'.committed
          /\ run' = NoRun
          /\ UNCHANGED <<score, score_vars, release_after, _lockout_after_id>>]_vars

\* An unknown observation came after 9 observations of paper: the count is
\* 0 again and no round has been resolved.
C12_Witness ==
    /\ ev.op = "_update_video" /\ ev.ret /\ ev.handled /\ ev.obs = "unknown"
    /\ ev.candidate = "paper" /\ ev.frames = COMMIT_FRAMES - 1
    /\ last_gesture = "unknown" /\ _gesture_frames = 0
    /\ commits = 0 /\ ~_lockout

\* C13: while the app is unlocked, an observation of a move other than the
\* candidate makes that move the candidate with count 1 and commits nothing;
\* an observation of the candidate adds exactly 1 to the count; and a round
\* is committed only by an observation of the candidate that brings its count
\* to 10, with that move.  So after 9 observations of one move a switch needs
\* 10 observations of the new move, and the new move is the one committed.
C13_SwitchRestartsCount ==
    [][(ev'.op = "_update_video" /\ ev'.ret /\ ~_lockout /\ ev'.obs \in MOVES) =>
          /\ ev'.handled
          /\ ev'.obs # last_gesture =>
                /\ last_gesture' = ev'.obs
                /\ _gesture_frames' = 1
                /\ commits' = commits
          /\ (ev'.obs = last_gesture /\ _gesture_frames + 1 < COMMIT_FRAMES) =>
                /\ last_gesture' = ev'.obs
                /\ _gesture_frames' = _gesture_frames + 1
                /\ commits' = commits
          /\ commits' # commits =>
                /\ ev'.obs = last_gesture
                /\ _gesture_frames + 1 = COMMIT_FRAMES
                /\ last_round'.player = ev'.obs]_vars

\* Paper was observed after 9 observations of rock: paper is the candidate
\* with count 1 and no round has been resolved.
C13_Witness ==
    /\ ev.op = "_update_video" /\ ev.ret /\ ev.handled /\ ev.obs = "paper"
    /\ ev.candidate = "rock" /\ ev.frames = COMMIT_FRAMES - 1
    /\ last_gesture = "paper" /\ _gesture_frames = 1
    /\ commits = 0 /\ ~_lockout

\* C14: with the pending release eventually run by the event loop, a locked
\* app is eventually unlocked again unless the program ends first; the lock
\* is cleared only by the release callback or by a reset; and the release
\* callback has run at most once for each commit.
C14_LockEventuallyCleared ==
    /\ (_lockout /\ phase = "running") ~> (~_lockout \/ phase = "exited")
    /\ [][(_lockout /\ ~_lockout') => ev'.op \in {"_release_lockout", "_reset_game"}]_vars
    /\ [](releases <= commits)

\* The release callback has run once, after one commit, and cleared the lock.
C14_Witness ==
    /\ ev.op = "_release_lockout" /\ ev.locked /\ ev.pending
    /\ ~_lockout /\ releases = 1 /\ commits = 1 /\ release_after = {}

\* C15: between callbacks the lock flag is set exactly when a release
\* callback is pending: the app is never locked with no release scheduled,
\* no release is pending while it is unlocked, and the release callback runs
\* only on a locked app; this holds too when a reset finds the id of a
\* release that has already run.
C15_LockedIffReleasePending ==
    /\ _lockout <=> release_after # {}
    /\ ev.op = "_release_lockout" => ev.locked

\* A reset has run on an unlocked app that still stored the id of a release
\* that had already run.
C15_Witness ==
    /\ ev.op = "_reset_game" /\ ev.id_set /\ ~ev.locked /\ ~ev.pending
    /\ releases = 1 /\ ~_lockout /\ release_after = {} /\ _lockout_after_id = <<>>

\* C16: between callbacks the count is in 0..9, it is 0 exactly when the
\* candidate is unknown, and a locked app has count 0 and candidate unknown.
C16_CountAndCandidate ==
    /\ _gesture_frames \in 0..(COMMIT_FRAMES - 1)
    /\ _gesture_frames = 0 <=> last_gesture = "unknown"
    /\ last_gesture \in MOVES \cup {"unknown"}
    /\ _lockout => (_gesture_frames = 0 /\ last_gesture = "unknown")

\* After a first round the app is unlocked again and has counted 9
\* observations of scissors.
C16_Witness ==
    /\ phase = "running" /\ ~_lockout /\ commits = 1
    /\ _gesture_frames = COMMIT_FRAMES - 1 /\ last_gesture = "scissors"

\* The sum of the three counters of a score.
Total(sc) == sc.player + sc.computer + sc.ties

\* C17: the three counters are never negative and their sum is the number of
\* rounds committed since the last reset (since startup when there was
\* none); they change only in a tick that commits a round, by exactly 1 in
\* total and without any counter falling, and in a reset, to zero; no other
\* tick, no failed read and no release callback changes them.
C17_ScoreCountsRounds ==
    /\ [](/\ score.player \in Nat /\ score.computer \in Nat /\ score.ties \in Nat
          /\ Total(score) = since_reset)
    /\ [][score' # score =>
            \/ /\ ev'.op = "_update_video" /\ ev'.committed
               /\ commits' = commits + 1
               /\ Total(score') = Total(score) + 1
               /\ score'.player >= score.player
               /\ score'.computer >= score.computer
               /\ score'.ties >= score.ties
            \/ /\ ev'.op = "_reset_game"
               /\ score' = [player |-> 0, computer |-> 0, ties |-> 0]]_vars

\* A round was committed, a reset cleared the score, and one more round has
\* been committed since: two commits, a total of 1.
C17_Witness ==
    /\ commits = 2 /\ since_reset = 1 /\ Total(score) = 1
    /\ ev.op = "_update_video" /\ ev.committed

\* C18: while the application runs exactly one tick callback is pending:
\* none before the constructor makes the first call, and every run of the
\* tick, with a frame or with a failed read, leaves exactly the one successor
\* it scheduled; a commit schedules no second tick, and the release callback
\* and the reset leave the pending tick alone.  The loop neither stops nor
\* forks.
C18_OneTickPending ==
    /\ [](/\ phase = "running" => Len(tick_after) = 1
          /\ phase \in {"start", "init_tick"} => tick_after = <<>>)
    /\ [][ev'.op = "_update_video" => tick_after' = <<ev'.ms>> /\ ev'.ms \in {TICK_MS, RETRY_MS}]_vars
    /\ [][ev'.op \in {"_release_lockout", "_reset_game"} => UNCHANGED tick_after]_vars

\* The tick that committed a round has scheduled its one successor, beside
\* the release it scheduled.
C18_Witness ==
    /\ phase = "running" /\ ev.op = "_update_video" /\ ev.committed
    /\ tick_after = <<TICK_MS>> /\ Cardinality(release_after) = 1

---------------------------------------------------------------------------
(* Claims about startup and shutdown (Spec)                                *)

\* C7: however the program shuts down (window close, keyboard interrupt,
\* failed camera initialization), a camera that was acquired at startup has
\* been released exactly once.
C7_ReleasedExactlyOnce ==
    (phase = "exited" /\ cap_check = <<TRUE>>) => cap_releases = 1

\* C10: when the camera cannot be opened at startup the process reports the
\* error and exits with a failure status, and it never runs a tick: no
\* observation is handled, no round is resolved, no tick and no release is
\* scheduled.
C10_NoCameraIsFatal ==
    cap_check = <<FALSE>> =>
        /\ error_shown
        /\ phase = "exited"
        /\ exit_status # <<>> /\ exit_status[1] # 0
        /\ ~ticked
        /\ run = NoRun
        /\ commits = 0
        /\ tick_after = <<>>
        /\ release_after = {}

\* The constructor found the camera closed and the process has ended.
C10_Witness ==
    /\ cap_check = <<FALSE>> /\ ev.op = "__init__" /\ ~ev.ret
    /\ phase = "exited" /\ exit_status = <<1>>

---------------------------------------------------------------------------
(* Claims about resolve_round (SpecResolve)                                *)

\* The relation the specification states: who beats whom.
StatedBeats ==
    [m \in MOVES |->
        CASE m = "rock"     -> {"scissors", "pencil"}
          [] m = "paper"    -> {"rock"}
          [] m = "scissors" -> {"paper", "pencil"}
          [] m = "pencil"   -> {"paper"}]

\* The outcome a message of resolve_round reports for the moves p and c.
Outcome(message, p, c) ==
    IF message = "It's a tie!" THEN "tie"
    ELSE IF message = "You win! " \o Title(p) \o " beats " \o c \o "." THEN "player"
    ELSE IF message = "I win! " \o Title(c) \o " beats " \o p \o "." THEN "computer"
    ELSE "none"

UnitOutcome == Outcome(unit.result.message, unit.player_move, unit.computer_move)

\* C5: resolve_round reports a player win exactly when the computer's move is
\* in the set the player's move beats, a computer win exactly when the
\* player's move is in the set the computer's move beats, and a tie for every
\* other pair, equal moves included; rock beats scissors and pencil, paper
\* beats rock, scissors beats paper and pencil, pencil beats paper.
C5_WinRelation ==
    (unit.fn = "resolve_round" /\ unit.done) =>
        LET p == unit.player_move
            c == unit.computer_move
        IN  /\ UnitOutcome = "player" <=> c \in StatedBeats[p]
            /\ UnitOutcome = "computer" <=> p \in StatedBeats[c]
            /\ UnitOutcome = "tie" <=> (c \notin StatedBeats[p] /\ p \notin StatedBeats[c])
            /\ p = c => UnitOutcome = "tie"

\* The computer has won with rock against the player's pencil.
C5_Witness ==
    /\ unit.fn = "resolve_round" /\ unit.done
    /\ unit.player_move = "pencil" /\ unit.computer_move = "rock"
    /\ UnitOutcome = "computer"

\* The counter an outcome is scored on.
CounterOf(outcome) ==
    CASE outcome = "tie"      -> "ties"
      [] outcome = "player"   -> "player"
      [] outcome = "computer" -> "computer"

\* C6: one call of resolve_round has exactly one of the three outcomes and adds
\* 1 to the counter of that outcome and nothing to the other two; for equal
\* moves the outcome is a tie and only the ties counter changes.
C6_OneCounterPerCall ==
    (unit.fn = "resolve_round" /\ unit.done) =>
        /\ UnitOutcome \in {"tie", "player", "computer"}
        /\ unit.result.score = [unit.score EXCEPT ![CounterOf(UnitOutcome)] = @ + 1]
        /\ unit.player_move = unit.computer_move =>
              /\ UnitOutcome = "tie"
              /\ unit.result.score = [unit.score EXCEPT !.ties = @ + 1]

\* Scissors against scissors was resolved on a score that was not all zero.
C6_Witness ==
    /\ unit.fn = "resolve_round" /\ unit.done
    /\ unit.player_move = "scissors" /\ unit.computer_move = "scissors"
    /\ unit.score = [player |-> 1, computer |-> 2, ties |-> 1]
    /\ unit.result.score = [player |-> 1, computer |-> 2, ties |-> 2]

---------------------------------------------------------------------------
(* Claims about _classify (SpecClassify)                                   *)

\* The gesture the specification states for five finger-extension booleans.
StatedGesture(fe) ==
    IF \A f \in Fingers : ~fe[f] THEN "rock"
    ELSE IF \A f \in Fingers : fe[f] THEN "paper"
    ELSE IF fe["index"] /\ \A f \in Fingers \ {"index"} : ~fe[f] THEN "pencil"
    ELSE IF fe["index"] /\ fe["middle"] /\ ~fe["ring"] /\ ~fe["pinky"] THEN "scissors"
    ELSE "unknown"

\* C9: for each of the 32 combinations of the five finger-extension booleans
\* _classify returns rock when none is extended, paper when all five are,
\* pencil when index is extended and thumb, middle, ring and pinky are not,
\* scissors when index and middle are extended and ring and pinky are not,
\* and unknown for every other combination.
C9_ClassifyTable ==
    (unit.fn = "_classify" /\ unit.done) =>
        unit.result = StatedGesture(fingers_extended(unit.landmarks))

=============================================================================
